---- MODULE Spec2Model ----
(***************************************************************************)
(* Model of App/trial.py: the Trial session controller.  One Trial object  *)
(* owns the session fields; run() polls the pipe, dispatches one message   *)
(* through handle_message() and, while play is set, renders, sends and     *)
(* steps.  Every method of Trial is an operator from the object's state    *)
(* (a record s) to the state it leaves, so that a handler is the           *)
(* composition of the calls it makes.                                      *)
(*                                                                         *)
(* Python strings are sequences of one-character strings, so that          *)
(* str.strip(), str.lower() and int() are computed, not assumed.           *)
(*                                                                         *)
(* The collaborators are taken to honour their contracts: the agent's      *)
(* calls, pipe.send and open() return, agent.step returns a dict with a    *)
(* 'done' flag, and the fields of a message are strings.  What the model   *)
(* does let fail is cPickle.dump on a missing or closed file; the          *)
(* exception leaves run() and ends the process (pc = "crashed").           *)
(***************************************************************************)
EXTENDS Integers, Sequences, FiniteSets, TLC

\* ------------------------------------------------------------ bounds
\* messages the remote side sends during one trial (Spec / SpecInput)
MaxMsgs == 2
MaxMsgsInput == 2
\* frames rendered by the play branch of run() during one trial
MaxFrames == 3
MaxFramesInput == 1
\* largest configured maxEpisodes
MaxEpisodesCfg == 2

\* ------------------------------------------------------------ strings
Whitespace == {" ", "\n", "\t"}
Uppers == <<"A","B","C","D","E","F","G","H","I","J","K","L","M",
            "N","O","P","Q","R","S","T","U","V","W","X","Y","Z">>
Lowers == <<"a","b","c","d","e","f","g","h","i","j","k","l","m",
            "n","o","p","q","r","s","t","u","v","w","x","y","z">>
Digits == <<"0","1","2","3","4","5","6","7","8","9">>

\* str.lower() on one character
LowerChar(c) ==
    IF \E k \in 1..Len(Uppers) : Uppers[k] = c
    THEN Lowers[CHOOSE k \in 1..Len(Uppers) : Uppers[k] = c]
    ELSE c

\* str.lower()
Lower(str) == [i \in 1..Len(str) |-> LowerChar(str[i])]

RECURSIVE LStrip(_)
LStrip(str) ==
    IF str = <<>> THEN str
    ELSE IF Head(str) \in Whitespace THEN LStrip(Tail(str)) ELSE str

RECURSIVE RStrip(_)
RStrip(str) ==
    IF str = <<>> THEN str
    ELSE IF str[Len(str)] \in Whitespace
         THEN RStrip(SubSeq(str, 1, Len(str) - 1)) ELSE str

\* str.strip()
Strip(str) == RStrip(LStrip(str))

IsDigit(c) == \E k \in 1..Len(Digits) : Digits[k] = c
DigitVal(c) == (CHOOSE k \in 1..Len(Digits) : Digits[k] = c) - 1

RECURSIVE DigitsVal(_)
DigitsVal(str) ==
    IF str = <<>> THEN 0
    ELSE 10 * DigitsVal(SubSeq(str, 1, Len(str) - 1)) + DigitVal(str[Len(str)])

\* the unsigned part of an int() literal
Unsigned(str) == IF str # <<>> /\ Head(str) \in {"+", "-"} THEN Tail(str) ELSE str

\* int(str) returns (TRUE) or raises ValueError (FALSE): an optional sign and
\* one or more decimal digits (the argument is already stripped)
IntParses(str) ==
    /\ Unsigned(str) # <<>>
    /\ \A i \in 1..Len(Unsigned(str)) : IsDigit(Unsigned(str)[i])

\* int(str) where it returns
IntValue(str) ==
    IF str # <<>> /\ Head(str) = "-" THEN 0 - DigitsVal(Unsigned(str))
    ELSE DigitsVal(Unsigned(str))

\* list.index(x): 0-based position of the first element equal to x
IndexOf(list, x) == (CHOOSE i \in 1..Len(list) :
                        /\ list[i] = x
                        /\ \A j \in 1..(i - 1) : list[j] # x) - 1

\* x in list
InList(list, x) == \E i \in 1..Len(list) : list[i] = x

\* ------------------------------------------------------------ literals
S_noop == <<"n","o","o","p">>
S_left == <<"l","e","f","t">>
S_right == <<"r","i","g","h","t">>
S_start == <<"s","t","a","r","t">>
S_stop == <<"s","t","o","p">>
S_reset == <<"r","e","s","e","t">>
S_pause == <<"p","a","u","s","e">>
S_requestUI == <<"r","e","q","u","e","s","t","U","I">>
S_faster == <<"f","a","s","t","e","r">>
S_slower == <<"s","l","o","w","e","r">>
S_u1 == <<"u","1">>
S_u2 == <<"u","2">>
\* f'user_{shortuuid.uuid()}': "#" stands for the generated uuid
S_synthetic == <<"u","s","e","r","_","#">>

\* config.get(key, default): the defaults of trial.py
DefaultStartingFrameRate == 30
DefaultFrameRateStepSize == 5
DefaultMinFrameRate == 1
DefaultMaxFrameRate == 90

\* ------------------------------------------------------------ state
VARIABLES
    config,       \* self.config (read only after load_config)
    frameId, humanAction, episode, done, play,
    trial_log, ep_log, outfile, framerate, userId, filename,
    trace,        \* every call on the pipe, the agent and the file, in order
    exc,          \* the exception that ended run(), or "none"
    pc,           \* position of run(): "loop", "play", "exit", "crashed"
    nrecv,        \* number of payloads received so far
    lastIn        \* the payload received last

vars == <<config, frameId, humanAction, episode, done, play, trial_log, ep_log,
          outfile, framerate, userId, filename, trace, exc, pc, nrecv, lastIn>>

\* ------------------------------------------------------------ the Trial object
\* self, as a record the methods below transform
Self == [frameId |-> frameId, humanAction |-> humanAction, episode |-> episode,
         done |-> done, play |-> play, trial_log |-> trial_log, ep_log |-> ep_log,
         outfile |-> outfile, framerate |-> framerate, userId |-> userId,
         filename |-> filename, trace |-> trace, exc |-> exc]

\* None, for userId, filename and outfile
NoUser == <<>>
NoFile == <<>>
NoOutfile == [st |-> "none", name |-> NoFile]

\* one call on a collaborator: e names it, a is its argument
Ev(e, a) == [e |-> e, a |-> a]
Emit(s, e, a) == [s EXCEPT !.trace = Append(@, Ev(e, a))]

\* raise: the first exception propagates out of run(); nothing runs after it
Raise(s, x) == [s EXCEPT !.exc = x]
Raised(s) == s.exc # "none"

\* a truthy Python value: a non-empty string or dict, an object
Truthy(v) == v # <<>>

\* key in message
HasKey(m, k) == k \in DOMAIN m

\* mutant: the trial is done only once episode has passed maxEpisodes
check_trial_done_late(s) == s.episode > config.maxEpisodes

\* Trial.check_trial_done
check_trial_done(s) == s.episode >= config.maxEpisodes

\* mutant: a new file restarts the frame counter
create_file_restartsFrames(s) ==
    LET name == IF config.dataFile = "trial"
                THEN <<"trial", s.userId>>
                ELSE <<"episode", s.episode, s.userId>>
        t == [s EXCEPT !.trace = Append(@, [e |-> "open", a |-> name])]
    IN  [t EXCEPT !.outfile = [st |-> "open", name |-> name],
                  !.filename = name, !.frameId = 0]

\* Trial.create_file: open(path, 'ab')
create_file(s) ==
    LET name == IF config.dataFile = "trial"
                THEN <<"trial", s.userId>>
                ELSE <<"episode", s.episode, s.userId>>
        t == Emit(s, "open", name)
    IN  [t EXCEPT !.outfile = [st |-> "open", name |-> name],
                  !.filename = name]

\* Trial.update_entry
update_entry(s, d) ==
    IF Raised(s) THEN s ELSE [s EXCEPT !.ep_log = Append(@, d)]

\* cPickle.dump(obj, self.outfile): TypeError on None, ValueError on a closed file
Dump(s, obj) ==
    IF s.outfile.st = "none" THEN Raise(s, "TypeError")
    ELSE IF s.outfile.st = "closed" THEN Raise(s, "ValueError")
    ELSE Emit(s, "dump", [file |-> s.outfile.name, data |-> obj])

\* Trial.save_record.  Every element of trial_log is the list object self.ep_log
\* itself (save_entry appends the object and never rebinds it in trial mode), so
\* trial_log is kept as the number of its elements and read through ep_log.
save_record(s) ==
    IF Raised(s) THEN s
    ELSE LET t == Dump(s, [i \in 1..s.trial_log |-> s.ep_log])
         IN  IF Raised(t) THEN t ELSE [t EXCEPT !.trial_log = 0]

\* Trial.save_entry
save_entry(s) ==
    IF Raised(s) THEN s
    ELSE IF config.dataFile = "trial"
         THEN [s EXCEPT !.trial_log = @ + 1]
         ELSE LET t == Dump(s, s.ep_log)
              IN  IF Raised(t) THEN t ELSE [t EXCEPT !.ep_log = <<>>]

\* Trial.end
end(s) ==
    IF Raised(s) THEN s
    ELSE LET s1 == Emit(Emit(s, "send_done", 0), "agent.close", 0)
             s2 == IF config.dataFile = "trial" THEN save_record(s1) ELSE s1
             s3 == IF s2.outfile.st # "none"
                   THEN Emit(Emit([s2 EXCEPT !.outfile.st = "closed"],
                                  "close", s2.outfile.name),
                             "send_upload", s2.filename)
                   ELSE s2
         IN  IF Raised(s2) THEN s2
             ELSE [s3 EXCEPT !.play = FALSE, !.done = TRUE]

\* mutant: the file of the episode that ends is not closed
reset_keepsFileOpen(s) ==
    IF s.exc # "none" THEN s
    ELSE LET s0 == [s EXCEPT !.trace = Append(@, [e |-> "reset()", a |-> s.episode])]
         IN  IF check_trial_done(s0) THEN end(s0)
             ELSE LET s1 == [s0 EXCEPT !.trace =
                                Append(@, [e |-> "agent.reset", a |-> 0])]
                      s3 == create_file(s1)
                  IN  [s3 EXCEPT !.episode = @ + 1]

\* Trial.reset.  The entry to reset() is recorded in the trace with the value
\* of episode it found.
reset(s) ==
    IF Raised(s) THEN s
    ELSE LET s0 == Emit(s, "reset()", s.episode)
         IN  IF check_trial_done(s0) THEN end(s0)
             ELSE LET s1 == Emit(s0, "agent.reset", 0)
                      s2 == IF s1.outfile.st # "none"
                            THEN LET c == Emit([s1 EXCEPT !.outfile.st = "closed"],
                                               "close", s1.outfile.name)
                                 IN  IF config.s3upload
                                     THEN Emit(c, "send_upload", c.filename)
                                     ELSE c
                            ELSE s1
                      s3 == create_file(s2)
                  IN  [s3 EXCEPT !.episode = @ + 1]

\* Trial.get_render followed by Trial.send_render: run() and handle_message()
\* always call the two together.  The frame sent carries the new frameId.
get_render(s) ==
    IF Raised(s) THEN s
    ELSE LET t == Emit(s, "agent.render", 0)
         IN  [t EXCEPT !.frameId = @ + 1]

send_render(s) ==
    IF Raised(s) THEN s ELSE Emit(s, "send_frame", s.frameId)

\* Trial.send_ui
send_ui(s) ==
    IF Raised(s) THEN s ELSE Emit(s, "send_ui", 0)

\* Trial.handle_command
handle_command(s, command) ==
    IF Raised(s) THEN s
    ELSE LET c == Lower(Strip(command))
         IN  IF c = S_start THEN [s EXCEPT !.play = TRUE]
             ELSE IF c = S_stop THEN end(s)
             ELSE IF c = S_reset THEN reset(s)
             ELSE IF c = S_pause THEN [s EXCEPT !.play = FALSE]
             ELSE IF c = S_requestUI THEN send_ui(s)
             ELSE s

\* mutant: the allowFrameRateChange switch is not consulted
handle_framerate_change_unguarded(s, change) ==
    IF s.exc # "none" THEN s
    ELSE LET step == config.frameRateStepSize
             minFR == config.minFrameRate
             maxFR == config.maxFrameRate
             c == Lower(Strip(change))
         IN  IF c = S_faster /\ s.framerate + step < maxFR
             THEN [s EXCEPT !.framerate = @ + step]
             ELSE IF c = S_slower /\ s.framerate - step > minFR
             THEN [s EXCEPT !.framerate = @ - step]
             ELSE IF IntParses(c) /\ IntValue(c) > minFR /\ IntValue(c) < maxFR
             THEN [s EXCEPT !.framerate = IntValue(c)]
             ELSE s

\* mutant: 'faster' and 'slower' may land on the bound itself
handle_framerate_change_stepInclusive(s, change) ==
    IF s.exc # "none" THEN s
    ELSE IF ~config.allowFrameRateChange THEN s
    ELSE LET step == config.frameRateStepSize
             minFR == config.minFrameRate
             maxFR == config.maxFrameRate
             c == Lower(Strip(change))
         IN  IF c = S_faster /\ s.framerate + step <= maxFR
             THEN [s EXCEPT !.framerate = @ + step]
             ELSE IF c = S_slower /\ s.framerate - step >= minFR
             THEN [s EXCEPT !.framerate = @ - step]
             ELSE IF IntParses(c) /\ IntValue(c) > minFR /\ IntValue(c) < maxFR
             THEN [s EXCEPT !.framerate = IntValue(c)]
             ELSE s

\* mutant: a numeric request may name the bound itself
handle_framerate_change_numericInclusive(s, change) ==
    IF s.exc # "none" THEN s
    ELSE IF ~config.allowFrameRateChange THEN s
    ELSE LET step == config.frameRateStepSize
             minFR == config.minFrameRate
             maxFR == config.maxFrameRate
             c == Lower(Strip(change))
         IN  IF c = S_faster /\ s.framerate + step < maxFR
             THEN [s EXCEPT !.framerate = @ + step]
             ELSE IF c = S_slower /\ s.framerate - step > minFR
             THEN [s EXCEPT !.framerate = @ - step]
             ELSE IF IntParses(c) /\ IntValue(c) >= minFR /\ IntValue(c) <= maxFR
             THEN [s EXCEPT !.framerate = IntValue(c)]
             ELSE s

\* Trial.handle_framerate_change
handle_framerate_change(s, change) ==
    IF Raised(s) THEN s
    ELSE IF ~config.allowFrameRateChange THEN s
    ELSE LET step == config.frameRateStepSize
             minFR == config.minFrameRate
             maxFR == config.maxFrameRate
             c == Lower(Strip(change))
         IN  IF c = S_faster /\ s.framerate + step < maxFR
             THEN [s EXCEPT !.framerate = @ + step]
             ELSE IF c = S_slower /\ s.framerate - step > minFR
             THEN [s EXCEPT !.framerate = @ - step]
             ELSE IF IntParses(c) /\ IntValue(c) > minFR /\ IntValue(c) < maxFR
             THEN [s EXCEPT !.framerate = IntValue(c)]
             ELSE s

\* mutant: the action is trimmed but not lower-cased
handle_action_caseSensitive(s, action) ==
    IF s.exc # "none" THEN s
    ELSE LET a == Strip(action)
             actionSpace == config.actionSpace
             actionCode == IF InList(actionSpace, a) THEN IndexOf(actionSpace, a)
                           ELSE 0
         IN  [s EXCEPT !.humanAction = actionCode]

\* Trial.handle_action
handle_action(s, action) ==
    IF Raised(s) THEN s
    ELSE LET a == Lower(Strip(action))
             actionSpace == config.actionSpace
             actionCode == IF InList(actionSpace, a) THEN IndexOf(actionSpace, a)
                           ELSE 0
         IN  [s EXCEPT !.humanAction = actionCode]

\* the value __init__ gives humanAction
InitialAction == IndexOf(config.actionSpace, S_noop)

\* mutant: a userId field is adopted whenever a message carries one
identify_again(s, m) ==
    IF HasKey(m, "userId")
    THEN LET s1 == [s EXCEPT !.userId = IF Truthy(m.userId) THEN m.userId
                                        ELSE S_synthetic]
         IN  send_render(get_render(reset(send_ui(s1))))
    ELSE s

\* the identification branch of Trial.handle_message
identify(s, m) ==
    IF ~Truthy(s.userId) /\ HasKey(m, "userId")
    THEN LET s1 == [s EXCEPT !.userId = IF Truthy(m.userId) THEN m.userId
                                        ELSE S_synthetic]
         IN  send_render(get_render(reset(send_ui(s1))))
    ELSE s

\* mutant: the three fields are tested one after the other, not as alternatives
dispatch_allFields(s, m) ==
    LET s1 == IF HasKey(m, "command") /\ Truthy(m.command)
              THEN handle_command(s, m.command) ELSE s
        s2 == IF HasKey(m, "changeFrameRate") /\ Truthy(m.changeFrameRate)
              THEN handle_framerate_change(s1, m.changeFrameRate) ELSE s1
    IN  IF HasKey(m, "action") /\ Truthy(m.action)
        THEN handle_action(s2, m.action) ELSE s2

\* the command / changeFrameRate / action branch of Trial.handle_message
dispatch(s, m) ==
    IF HasKey(m, "command") /\ Truthy(m.command)
    THEN handle_command(s, m.command)
    ELSE IF HasKey(m, "changeFrameRate") /\ Truthy(m.changeFrameRate)
    THEN handle_framerate_change(s, m.changeFrameRate)
    ELSE IF HasKey(m, "action") /\ Truthy(m.action)
    THEN handle_action(s, m.action)
    ELSE s

\* Trial.handle_message
handle_message(s, m) == update_entry(dispatch(identify(s, m), m), m)

\* mutant: the error record does not carry the current frameId
ParseError_frameZero(s) == [error |-> "unable to parse message", frameId |-> 0]

\* A payload on the pipe is text json.loads rejects (k = "bad") or the text of a
\* JSON object (k = "json", v the object).  The record the except branch of
\* check_message builds:
ParseError(s) == [error |-> "unable to parse message", frameId |-> s.frameId]

\* Trial.check_message, when pipe.poll() is true
check_message(s, payload) ==
    IF payload.k = "json" THEN payload.v ELSE ParseError(s)

\* `if message:` in run(): a dict is truthy unless it is empty
TruthyDict(m) == DOMAIN m # {}

\* mutant: the episode is reset before its log is saved
take_step_resetFirst(s, d) ==
    IF s.exc # "none" THEN s
    ELSE LET envState == [done |-> d]
             s1 == update_entry(
                       [s EXCEPT !.trace = Append(@,
                           [e |-> "agent.step",
                            a |-> [action |-> s.humanAction, done |-> d]])],
                       envState)
         IN  IF envState.done THEN save_entry(reset(s1)) ELSE s1

\* Trial.take_step; d is the done flag of the result agent.step returns.  The
\* call is recorded with the action passed and the done flag returned.
take_step(s, d) ==
    IF Raised(s) THEN s
    ELSE LET envState == [done |-> d]
             s1 == update_entry(
                       Emit(s, "agent.step", [action |-> s.humanAction, done |-> d]),
                       envState)
         IN  IF envState.done THEN reset(save_entry(s1)) ELSE s1

\* ------------------------------------------------------------ configurations
\* .trialConfig.yml, section trial.  actionSpace lists 'noop' first (index 0 is
\* the no-op); the frame-rate keys take the defaults of the code.
BaseConfig == [actionSpace |-> <<S_noop, S_left, S_right>>,
               startingFrameRate |-> DefaultStartingFrameRate,
               allowFrameRateChange |-> TRUE,
               frameRateStepSize |-> DefaultFrameRateStepSize,
               minFrameRate |-> DefaultMinFrameRate,
               maxFrameRate |-> DefaultMaxFrameRate,
               maxEpisodes |-> 1,
               dataFile |-> "episode",
               s3upload |-> FALSE]

\* the configurations of Spec: the trial's length, logging mode and upload flag
Configs ==
    { [BaseConfig EXCEPT !.maxEpisodes = n, !.dataFile = f, !.s3upload = u] :
        n \in 1..MaxEpisodesCfg, f \in {"episode", "trial"}, u \in BOOLEAN }

\* the configurations of SpecInput: the action space and the frame-rate switch
ConfigsInput ==
    { [BaseConfig EXCEPT !.actionSpace = sp, !.allowFrameRateChange = al] :
        sp \in {<<S_noop, S_left, S_right>>, <<S_noop, S_right>>},
        al \in BOOLEAN }

\* ------------------------------------------------------------ payloads
Json(v) == [k |-> "json", v |-> v]
BadPayload == [k |-> "bad", v |-> <<>>]
NoPayload == [k |-> "none", v |-> <<>>]

\* session control: identification and commands
Payloads ==
    { BadPayload,
      Json(<<>>),
      Json([userId |-> S_u1]),
      Json([userId |-> <<>>]),
      Json([userId |-> S_u2, command |-> S_start]),
      Json([userId |-> S_u1, command |-> S_reset]),
      Json([command |-> S_start]),
      Json([command |-> <<" ","S","T","O","P","\n">>]),
      Json([command |-> S_reset]),
      Json([command |-> S_pause]),
      Json([command |-> S_requestUI]),
      Json([command |-> <<"q","u","i","t">>]),
      Json([action |-> S_left]) }

S_50 == <<"5","0">>
S_85 == <<"8","5">>
S_90 == <<"9","0">>
S_abc == <<"a","b","c">>

\* frame-rate tokens and action strings, alone and combined
PayloadsInput ==
    { BadPayload,
      Json([command |-> S_start]),
      Json([command |-> S_stop]),
      Json([changeFrameRate |-> S_faster]),
      Json([changeFrameRate |-> S_slower]),
      Json([changeFrameRate |-> <<" ","F","a","s","t","e","r">>]),
      Json([changeFrameRate |-> S_50]),
      Json([changeFrameRate |-> S_85]),
      Json([changeFrameRate |-> S_90]),
      Json([changeFrameRate |-> <<"1">>]),
      Json([changeFrameRate |-> <<"6">>]),
      Json([changeFrameRate |-> <<"-","5">>]),
      Json([changeFrameRate |-> S_abc]),
      Json([changeFrameRate |-> <<>>]),
      Json([action |-> S_left]),
      Json([action |-> <<"R","i","g","h","t"," ">>]),
      Json([action |-> <<"j","u","m","p">>]),
      Json([action |-> <<" ">>]),
      Json([command |-> <<>>, changeFrameRate |-> S_50, action |-> S_left]),
      Json([command |-> S_abc, changeFrameRate |-> S_50, action |-> S_left]),
      Json([command |-> S_pause, action |-> S_right]),
      Json([changeFrameRate |-> S_abc, action |-> S_left]),
      Json([changeFrameRate |-> <<>>, action |-> S_right]) }

\* ------------------------------------------------------------ Trial.__init__
InitWith(cfgs) ==
    /\ config \in cfgs
    /\ frameId = 0
    /\ humanAction = InitialAction
    /\ episode = 0
    /\ done = FALSE
    /\ play = FALSE
    /\ trial_log = 0
    /\ ep_log = <<>>
    /\ outfile = NoOutfile
    /\ framerate = config.startingFrameRate
    /\ userId = NoUser
    /\ filename = NoFile
    /\ trace = <<Ev("agent.start", 0)>>
    /\ exc = "none"
    /\ pc = "loop"
    /\ nrecv = 0
    /\ lastIn = NoPayload

Init == InitWith(Configs)
InitInput == InitWith(ConfigsInput)

\* ------------------------------------------------------------ Trial.run
\* the fields of self after a call, and where run() is next
Commit(t, next) ==
    /\ frameId' = t.frameId
    /\ humanAction' = t.humanAction
    /\ episode' = t.episode
    /\ done' = t.done
    /\ play' = t.play
    /\ trial_log' = t.trial_log
    /\ ep_log' = t.ep_log
    /\ outfile' = t.outfile
    /\ framerate' = t.framerate
    /\ userId' = t.userId
    /\ filename' = t.filename
    /\ trace' = t.trace
    /\ exc' = t.exc
    /\ pc' = IF Raised(t) THEN "crashed" ELSE next
    /\ UNCHANGED config

\* `while not self.done`, pipe.poll() true: check_message and handle_message
RunMessage(payload) ==
    /\ pc = "loop" /\ ~done
    /\ LET message == check_message(Self, payload)
       IN  Commit(IF TruthyDict(message) THEN handle_message(Self, message)
                  ELSE Self, "play")
    /\ nrecv' = nrecv + 1
    /\ lastIn' = payload

\* `while not self.done`, pipe.poll() false
RunNoMessage ==
    /\ pc = "loop" /\ ~done
    /\ Commit(Self, "play")
    /\ UNCHANGED <<nrecv, lastIn>>

\* `if self.play`: get_render, send_render, take_step, then sleep
RunPlay(d) ==
    /\ pc = "play" /\ play
    /\ Commit(take_step(send_render(get_render(Self)), d), "loop")
    /\ UNCHANGED <<nrecv, lastIn>>

\* play is false: sleep only
RunSleep ==
    /\ pc = "play" /\ ~play
    /\ Commit(Self, "loop")
    /\ UNCHANGED <<nrecv, lastIn>>

\* `while not self.done` fails: run() returns
RunExit ==
    /\ pc = "loop" /\ done
    /\ Commit(Self, "exit")
    /\ UNCHANGED <<nrecv, lastIn>>

Receive == \E p \in Payloads : nrecv < MaxMsgs /\ RunMessage(p)
Step == \E d \in BOOLEAN : frameId < MaxFrames /\ RunPlay(d)

Next == Receive \/ RunNoMessage \/ Step \/ RunSleep \/ RunExit

Spec == Init /\ [][Next]_vars

ReceiveInput == \E p \in PayloadsInput : nrecv < MaxMsgsInput /\ RunMessage(p)
StepInput == \E d \in BOOLEAN : frameId < MaxFramesInput /\ RunPlay(d)

NextInput == ReceiveInput \/ RunNoMessage \/ StepInput \/ RunSleep \/ RunExit

SpecInput == InitInput /\ [][NextInput]_vars

\* ------------------------------------------------------------ reading the trace
Idx(e) == {i \in 1..Len(trace) : trace[i].e = e}
Count(e) == Cardinality(Idx(e))

\* this step received a payload (a step of RunMessage)
Received == nrecv' = nrecv + 1

\* ------------------------------------------------------------ C1
StepEffects == {"agent.render", "send_frame", "agent.step"}

\* C1: once end() has run (done = TRUE), play is FALSE and no agent.render,
\* frame send or agent.step follows the 'done' signal that end() sent.
C1_EndIsTerminal ==
    done => /\ ~play
            /\ \A i \in Idx("send_done") : \A j \in (i + 1)..Len(trace) :
                   trace[j].e \notin StepEffects

\* ------------------------------------------------------------ C2
ResetIdx == Idx("reset()")
\* the entry to reset() that follows the one at k, or the end of the trace
NextReset(k) ==
    IF \E n \in ResetIdx : n > k
    THEN CHOOSE n \in ResetIdx : n > k /\ \A o \in ResetIdx : o > k => n <= o
    ELSE Len(trace) + 1
\* the value of episode that the call at k left: what the next call found, or
\* the current value
EpisodeAfter(k) ==
    IF NextReset(k) <= Len(trace) THEN trace[NextReset(k)].a ELSE episode
CountIn(e, lo, hi) == Cardinality({j \in lo..hi : trace[j].e = e})

\* C2: a call of reset() that finds episode < maxEpisodes resets the agent once,
\* opens one file and leaves episode one higher; a call that finds
\* episode >= maxEpisodes runs end() (whose first effect is the 'done' signal),
\* resets no agent, opens no file and leaves episode as it was; episode is what
\* the calls of reset() made it (0 before the first).
C2_ResetEpisode ==
    /\ ResetIdx = {} => episode = 0
    /\ \A k \in ResetIdx :
          LET hi == NextReset(k) - 1
          IN  /\ (\A o \in ResetIdx : k <= o) => trace[k].a = 0
              /\ IF trace[k].a < config.maxEpisodes
                 THEN /\ EpisodeAfter(k) = trace[k].a + 1
                      /\ trace[k + 1].e = "agent.reset"
                      /\ CountIn("agent.reset", k + 1, hi) = 1
                      /\ CountIn("open", k + 1, hi) = 1
                 ELSE /\ EpisodeAfter(k) = trace[k].a
                      /\ trace[k + 1].e = "send_done"
                      /\ CountIn("agent.reset", k + 1, hi) = 0
                      /\ CountIn("open", k + 1, hi) = 0

\* a reset() that ended the trial after resets that advanced it
C2_Witness ==
    /\ episode = 2
    /\ \E k \in ResetIdx : trace[k].a >= config.maxEpisodes

\* ------------------------------------------------------------ C3
\* C3: frameId is the number of frames rendered and sent so far (so it starts at
\* 0, never decreases and no reset() or end() changes it), and the k-th frame
\* message sent carries frameId k.
C3_FrameIds ==
    /\ frameId = Count("send_frame")
    /\ frameId = Count("agent.render")
    /\ \A i \in Idx("send_frame") :
          trace[i].a = Cardinality({j \in Idx("send_frame") : j <= i})

\* frames on both sides of a reset(), and the trial ended
C3_Witness ==
    /\ done /\ frameId >= 3
    /\ \E i \in ResetIdx : \E j \in Idx("send_frame") : \E k \in Idx("send_frame") :
          j < i /\ i < k /\ trace[i].a >= 1

\* ------------------------------------------------------------ C4
\* C4: a payload that json.loads rejects becomes the record {error, frameId} with
\* the current frameId; dispatching it raises nothing, leaves play, done, episode,
\* framerate, humanAction and userId as they were and appends that record to
\* ep_log.
C4_MalformedRecorded ==
    [][(Received /\ lastIn'.k = "bad") =>
          /\ exc' = "none"
          /\ UNCHANGED <<play, done, episode, framerate, humanAction, userId>>
          /\ ep_log' = Append(ep_log, [error |-> "unable to parse message",
                                       frameId |-> frameId])]_vars

\* a malformed payload received after frames were rendered
C4_Witness ==
    /\ lastIn.k = "bad" /\ frameId >= 2 /\ Len(ep_log) >= 2
    /\ DOMAIN ep_log[Len(ep_log)] = {"error", "frameId"}
    /\ ep_log[Len(ep_log)].frameId = frameId

\* ------------------------------------------------------------ which field a message acts on
\* this step received the text of a JSON object, M
JsonIn == Received /\ lastIn'.k = "json"
M == lastIn'.v
\* the field is in the message with a non-empty value
Present(m, k) == HasKey(m, k) /\ m[k] # <<>>
ActsOnCommand(m) == Present(m, "command")
ActsOnRate(m) == ~Present(m, "command") /\ Present(m, "changeFrameRate")
ActsOnAction(m) ==
    ~Present(m, "command") /\ ~Present(m, "changeFrameRate") /\ Present(m, "action")

\* ------------------------------------------------------------ C5
\* C5: an action string that, trimmed and lower-cased, is in the action space
\* makes humanAction its (first) index; any other action string makes it 0;
\* humanAction starts at 0 and nothing but an action message changes it, so
\* unknown actions alone leave it at 0 throughout.
C5_ActionCode ==
    [][/\ nrecv = 0 => humanAction = 0
       /\ (JsonIn /\ ActsOnAction(M)) =>
             LET a == Lower(Strip(M.action))
                 sp == config.actionSpace
             IN  IF \E i \in 1..Len(sp) : sp[i] = a
                 THEN /\ humanAction' \in 0..(Len(sp) - 1)
                      /\ sp[humanAction' + 1] = a
                      /\ \A j \in 1..humanAction' : sp[j] # a
                 ELSE humanAction' = 0
       /\ ~(JsonIn /\ ActsOnAction(M)) => humanAction' = humanAction]_vars

\* an unknown action received after a known one set a non-zero code
C5_Witness ==
    /\ lastIn.v = [action |-> <<"j","u","m","p">>]
    /\ humanAction = 0
    /\ Len(ep_log) = 2
    /\ ep_log[1] = [action |-> <<"R","i","g","h","t"," ">>]

\* ------------------------------------------------------------ C6
\* C6: with allowFrameRateChange false, a message whose changeFrameRate field is
\* dispatched (or is its only field) changes no field of the session and makes no
\* call on the pipe, the agent or the file, whatever the token.
C6_RateChangeDisabled ==
    [][(/\ JsonIn
        /\ ~config.allowFrameRateChange
        /\ ActsOnRate(M) \/ DOMAIN M = {"changeFrameRate"}) =>
          /\ UNCHANGED <<framerate, frameId, humanAction, episode, done, play,
                         userId, outfile, filename, trial_log, trace>>
          /\ exc' = "none"]_vars

\* a numeric request refused after another request was refused
C6_Witness ==
    /\ ~config.allowFrameRateChange
    /\ lastIn.v = [changeFrameRate |-> S_50]
    /\ framerate = DefaultStartingFrameRate
    /\ Len(ep_log) = 2
    /\ ep_log[1] = [changeFrameRate |-> S_faster]

\* ------------------------------------------------------------ C7
\* C7: with the change allowed, 'faster' changes framerate only to
\* framerate + step and only when that is below maxFrameRate, 'slower' only to
\* framerate - step and only when that is above minFrameRate; after either,
\* framerate is strictly between minFrameRate and maxFrameRate.
C7_FasterSlowerBounds ==
    [][(JsonIn /\ config.allowFrameRateChange /\ ActsOnRate(M)) =>
          LET c == Lower(Strip(M.changeFrameRate))
              step == config.frameRateStepSize
          IN  /\ c = S_faster =>
                    \/ framerate' = framerate
                    \/ /\ framerate' = framerate + step
                       /\ framerate + step < config.maxFrameRate
              /\ c = S_slower =>
                    \/ framerate' = framerate
                    \/ /\ framerate' = framerate - step
                       /\ framerate - step > config.minFrameRate
              /\ c \in {S_faster, S_slower} =>
                    /\ framerate' > config.minFrameRate
                    /\ framerate' < config.maxFrameRate]_vars

\* 'faster' refused at 85, one step below the maximum
C7_Witness ==
    /\ config.allowFrameRateChange
    /\ lastIn.v = [changeFrameRate |-> S_faster]
    /\ framerate = DefaultMaxFrameRate - DefaultFrameRateStepSize
    /\ Len(ep_log) = 2
    /\ ep_log[1] = [changeFrameRate |-> S_85]

\* ------------------------------------------------------------ C8
\* C8: with the change allowed, a token int() accepts sets framerate to its value
\* r exactly when minFrameRate < r < maxFrameRate and otherwise changes nothing
\* ('50' sets 50; '1' and '90' change nothing); a token that is neither a number
\* nor 'faster'/'slower' changes nothing; no token raises.
C8_NumericRequest ==
    [][(JsonIn /\ config.allowFrameRateChange /\ ActsOnRate(M)) =>
          LET c == Lower(Strip(M.changeFrameRate))
          IN  /\ exc' = "none"
              /\ IntParses(c) =>
                    IF IntValue(c) > config.minFrameRate
                       /\ IntValue(c) < config.maxFrameRate
                    THEN framerate' = IntValue(c)
                    ELSE framerate' = framerate
              /\ (~IntParses(c) /\ c \notin {S_faster, S_slower}) =>
                    framerate' = framerate
              /\ M.changeFrameRate = S_50 => framerate' = 50
              /\ M.changeFrameRate \in {<<"1">>, S_90} => framerate' = framerate]_vars

\* '90' refused after '50' was applied
C8_Witness ==
    /\ lastIn.v = [changeFrameRate |-> S_90]
    /\ framerate = 50
    /\ Len(ep_log) = 2
    /\ ep_log[1] = [changeFrameRate |-> S_50]

\* ------------------------------------------------------------ C9
\* the effect of a message that carries a command and nothing else, for the four
\* commands the code recognises and for a command that is none of the five
KnownCommandEffect(c) ==
    /\ c = S_start => play' /\ trace' = trace
    /\ c = S_pause => ~play' /\ trace' = trace
    /\ c = S_stop => /\ Len(trace') > Len(trace)
                     /\ trace'[Len(trace) + 1].e = "send_done"
    /\ c = S_reset => /\ Len(trace') > Len(trace)
                      /\ trace'[Len(trace) + 1].e = "reset()"
    /\ c \notin {S_start, S_pause, S_stop, S_reset, Lower(S_requestUI)} =>
          UNCHANGED <<play, done, episode, framerate, humanAction, userId,
                      outfile, frameId, trace>>

\* C9: a command, trimmed and compared without regard to case, has the effect of
\* its name: 'start' sets play, 'pause' clears it, 'stop' runs end(), 'reset' runs
\* reset(), 'requestUI' sends the UI descriptor; any other command changes nothing
\* and sends nothing.
C9_CommandEffects ==
    [][(JsonIn /\ DOMAIN M = {"command"} /\ M.command # <<>>) =>
          LET c == Lower(Strip(M.command))
          IN  /\ KnownCommandEffect(c)
              /\ c = Lower(S_requestUI) =>
                    /\ Len(trace') = Len(trace) + 1
                    /\ trace'[Len(trace') ].e = "send_ui"]_vars

\* ------------------------------------------------------------ C10
\* C10 as claimed: a command field that is in the message, even empty, keeps the
\* changeFrameRate and action fields from having any effect; without a command
\* field, a changeFrameRate field that is in the message keeps the action field
\* from having any effect.
C10_FirstFieldInMessage ==
    [][(JsonIn /\ ~HasKey(M, "userId")) =>
          /\ HasKey(M, "command") => UNCHANGED <<framerate, humanAction>>
          /\ (~HasKey(M, "command") /\ HasKey(M, "changeFrameRate")) =>
                UNCHANGED humanAction]_vars

\* C10 as amended: the field acted upon is the first of command,
\* changeFrameRate, action that is in the message with a non-empty value.  A
\* non-empty command (recognised or not) keeps changeFrameRate and action from
\* having any effect; with no non-empty command, a non-empty changeFrameRate
\* keeps action from having any effect and the command branch changes nothing;
\* an empty command does not keep a changeFrameRate of '50' from being applied,
\* nor does an empty changeFrameRate keep an action from being resolved.
C10_FirstNonEmptyField ==
    [][(JsonIn /\ ~HasKey(M, "userId")) =>
          /\ ActsOnCommand(M) => UNCHANGED <<framerate, humanAction>>
          /\ ActsOnRate(M) => UNCHANGED <<humanAction, play, done, episode, trace>>
          /\ ActsOnAction(M) => UNCHANGED <<framerate, play, done, episode, trace>>
          /\ (ActsOnRate(M) /\ config.allowFrameRateChange
                /\ M.changeFrameRate = S_50) => framerate' = 50
          /\ (ActsOnAction(M) /\ M.action = S_right) =>
                config.actionSpace[humanAction' + 1] = S_right]_vars

\* an unrecognised command shadowing a frame-rate request and an action, after
\* an action had been resolved
C10_Witness ==
    /\ config.allowFrameRateChange
    /\ lastIn.v = [command |-> S_abc, changeFrameRate |-> S_50, action |-> S_left]
    /\ framerate = DefaultStartingFrameRate
    /\ humanAction = IndexOf(config.actionSpace, S_right)
    /\ Len(ep_log) = 2
    /\ ep_log[1] = [changeFrameRate |-> <<>>, action |-> S_right]

\* ------------------------------------------------------------ C11
\* C11: every message check_message returns, the empty object included, is in
\* ep_log once more, unchanged, when the iteration that received it has
\* dispatched it without raising.
C11_EveryMessageLogged ==
    [][(Received /\ exc' = "none") =>
          ep_log' = Append(ep_log, check_message(Self, lastIn'))]_vars

\* ------------------------------------------------------------ C12
\* the calls this step made, in order
NewCalls == SubSeq(trace', Len(trace) + 1, Len(trace'))
\* the calls reset() and end() make
ResetCalls == {"agent.reset", "close", "send_upload", "open",
               "send_done", "agent.close", "dump"}

\* C12: the first message with a userId field adopts it (a synthetic non-empty id
\* for an empty one), then sends the UI descriptor, then runs reset(), then
\* renders and sends one frame, which carries frameId 1 when it is the first of
\* the trial; once set, userId never changes, and the UI descriptor of the
\* bootstrap is sent at most once, exactly when userId is set.
C12_Bootstrap ==
    [][/\ (JsonIn /\ HasKey(M, "userId") /\ userId = NoUser) =>
             /\ userId' # NoUser
             /\ M.userId # <<>> => userId' = M.userId
             /\ Len(NewCalls) >= 4
             /\ NewCalls[1].e = "send_ui"
             /\ NewCalls[2].e = "reset()"
             /\ \E j \in 4..Len(NewCalls) :
                   /\ NewCalls[j].e = "send_frame"
                   /\ NewCalls[j - 1].e = "agent.render"
                   /\ \A i \in 3..(j - 2) : NewCalls[i].e \in ResetCalls
                   /\ \A i \in 1..Len(NewCalls) :
                         NewCalls[i].e = "send_frame" => i = j
                   /\ frameId = 0 => NewCalls[j].a = 1
       /\ userId # NoUser => userId' = userId
       /\ (userId' = NoUser) = (Cardinality({i \in 1..Len(trace') :
                                    trace'[i].e = "send_ui"}) = 0)
       /\ Cardinality({i \in 1..Len(trace') : trace'[i].e = "send_ui"}) <= 1]_vars

\* a synthetic id kept when a later message names another user
C12_Witness ==
    /\ userId = S_synthetic
    /\ nrecv = 2
    /\ lastIn.v = [userId |-> S_u1]
    /\ Count("send_ui") = 1
    /\ frameId = 1

\* ------------------------------------------------------------ C13
\* the call at i comes after end() has sent 'done'
AfterDoneSignal(i) == \E j \in Idx("send_done") : j < i

\* C13: with dataFile = 'trial', no file is closed, no upload hand-off is sent and
\* nothing is written before end() runs, the file is opened at most once, and a
\* trial that has ended has written its log exactly once.
C13_TrialModeSingleFlush ==
    config.dataFile = "trial" =>
       /\ \A i \in Idx("close") \cup Idx("send_upload") \cup Idx("dump") :
             AfterDoneSignal(i)
       /\ Count("open") <= 1
       /\ done => Count("dump") = 1

\* ------------------------------------------------------------ C14
\* C14: over a trial the 'done' signal is sent at most once, agent.close is
\* called at most once, and at most one write and one upload hand-off follow the
\* 'done' signal, however often end() is reached.
C14_EndEffectsOnce ==
    /\ Count("send_done") <= 1
    /\ Count("agent.close") <= 1
    /\ Cardinality({i \in Idx("dump") : AfterDoneSignal(i)}) <= 1
    /\ Cardinality({i \in Idx("send_upload") : AfterDoneSignal(i)}) <= 1

\* ------------------------------------------------------------ C15
\* C15: a step in which reset() opened a new file leaves in ep_log only what was
\* appended after that reset(): the message being dispatched when a message
\* triggered it, nothing when a step result triggered it.
C15_FreshLogAfterReset ==
    [][episode' > episode =>
          ep_log' = IF Received THEN <<check_message(Self, lastIn')>> ELSE <<>>]_vars

\* ------------------------------------------------------------ C16
\* the calls of agent.step that returned done = TRUE
DoneSteps == {i \in Idx("agent.step") : trace[i].a.done}
\* the call at k is agent.step and returned done = TRUE
IsDoneStep(k) == k >= 1 /\ trace[k].e = "agent.step" /\ trace[k].a.done

\* the trial so far is the one C16 describes: stepping began after
\* identification, every reset() came from identification or from a step result
\* with done = TRUE (no 'reset' command), and every end() came from reset() (no
\* 'stop' command)
PlainTrial ==
    /\ \A i \in Idx("agent.step") : \E u \in Idx("send_ui") : u < i
    /\ \A k \in ResetIdx :
          \/ trace[k - 1].e = "send_ui"
          \/ IsDoneStep(k - 1)
          \/ trace[k - 1].e = "dump" /\ IsDoneStep(k - 2)
    /\ \A j \in Idx("send_done") : trace[j - 1].e = "reset()"

\* C16: in such a trial with maxEpisodes = N, every step result with done = TRUE
\* first saves the episode log (in episode mode a write of the log, ending with
\* that result, to the open file; in trial mode one more entry of trial_log) and
\* then enters reset(); the k-th such reset() finds episode = k; end() has run
\* exactly when N results with done = TRUE have come, never more; and the log of
\* the last episode is written before end() closes the file.
C16_SaveThenResetThenEnd ==
    PlainTrial =>
       LET N == config.maxEpisodes
           D == Cardinality(DoneSteps)
       IN  /\ exc = "none"
           /\ D <= N
           /\ Count("send_done") = (IF D = N THEN 1 ELSE 0)
           /\ done = (D = N)
           /\ \A i \in DoneSteps :
                 LET k == Cardinality({j \in DoneSteps : j <= i})
                     r == IF config.dataFile = "trial" THEN i + 1 ELSE i + 2
                 IN  /\ r <= Len(trace)
                     /\ trace[r].e = "reset()"
                     /\ trace[r].a = k
                     /\ config.dataFile # "trial" =>
                           /\ trace[i + 1].e = "dump"
                           /\ trace[i + 1].a.file = <<"episode", k - 1, userId>>
                           /\ Len(trace[i + 1].a.data) >= 1
                           /\ trace[i + 1].a.data[Len(trace[i + 1].a.data)]
                                 = [done |-> TRUE]
           /\ config.dataFile = "trial" =>
                 trial_log = (IF done THEN 0 ELSE D)
           /\ (done /\ config.dataFile = "trial") =>
                 \E w \in Idx("dump") :
                    /\ AfterDoneSignal(w)
                    /\ Len(trace[w].a.data) = N
                    /\ \A cl \in Idx("close") : AfterDoneSignal(cl) => w < cl

\* a two-episode trial in episode mode that ran to its end
C16_Witness ==
    /\ PlainTrial /\ done
    /\ config.maxEpisodes = 2 /\ config.dataFile = "episode"
    /\ Cardinality(DoneSteps) = 2
    /\ Count("dump") = 2

\* the same in trial mode
C16_WitnessTrialMode ==
    /\ PlainTrial /\ done
    /\ config.maxEpisodes = 2 /\ config.dataFile = "trial"
    /\ Count("dump") = 1

\* ------------------------------------------------------------ C17
\* C17, the 'stop' half: the iteration that dispatches a 'stop' command ends with
\* done TRUE and play FALSE, so that it renders and steps nothing and the loop
\* test that follows fails.
C17_StopEndsLoop ==
    [][(JsonIn /\ ~HasKey(M, "userId") /\ ActsOnCommand(M)
          /\ Lower(Strip(M.command)) = S_stop) =>
          /\ done' /\ ~play' /\ pc' = "play"
          /\ \A i \in 1..Len(NewCalls) : NewCalls[i].e \notin StepEffects]_vars

\* ------------------------------------------------------------ C18
\* C18: when the trial has ended, every record appended to ep_log has been
\* written: in episode mode nothing is left in ep_log (a write empties it), in
\* trial mode the trial log written holds the whole of ep_log.
C18_AllRecordsWritten ==
    (done /\ exc = "none") =>
       IF config.dataFile = "trial"
       THEN \E w \in Idx("dump") :
               /\ Len(trace[w].a.data) >= 1
               /\ Len(trace[w].a.data[1]) = Len(ep_log)
       ELSE ep_log = <<>>

\* ------------------------------------------------------------ C19
\* the file opened at i has been closed since
ClosedSince(i) == \E c \in Idx("close") : c > i

\* C19: between two opens there is a close, so at most one file is open at any
\* time; every close is of the file opened last; outfile is open exactly when the
\* file opened last has not been closed; and no file is open once the trial has
\* ended.
C19_OneFileOpen ==
    /\ \A i \in Idx("open") : \A j \in Idx("open") :
          i < j => \E c \in Idx("close") : i < c /\ c < j
    /\ \A c \in Idx("close") :
          \E i \in Idx("open") :
             /\ i < c
             /\ \A j \in Idx("open") : j < c => j <= i
             /\ trace[c].a = trace[i].a
    /\ (outfile.st = "open") = (\E i \in Idx("open") : ~ClosedSince(i))
    /\ done => outfile.st # "open"

\* a trial that opened two files and ended
C19_Witness ==
    /\ done
    /\ Count("open") = 2
    /\ Count("close") >= 2
    /\ outfile.st = "closed"

\* ------------------------------------------------------------ C20
\* C20: no cPickle.dump is ever made on a missing or closed file, whatever the
\* order of the messages.
C20_WritesHaveOpenFile == exc \notin {"TypeError", "ValueError"}
====
